---- MODULE Spec2Model ----
(***************************************************************************)
(* Model of streamlit_app.py: the Excel <-> GeoJSON converter.             *)
(*                                                                         *)
(* Text is a sequence of one-character strings, so that splitting,         *)
(* trimming, comma replacement and numeric parsing are computed character  *)
(* by character as the Python code computes them.  A cell or JSON value is *)
(* a tagged record:                                                        *)
(*   NaN        pandas' missing value (an empty spreadsheet cell)          *)
(*   None       Python None / JSON null                                    *)
(*   Num(m, e)  the number m / 10^e, normalised (m % 10 # 0 or e = 0)      *)
(*   Str(s)     the text s                                                 *)
(*   List(l)    a list of texts                                            *)
(* The int64/float64 distinction of a number is not modelled: 8 and 8.0    *)
(* are the same Num.                                                       *)
(***************************************************************************)
EXTENDS Integers, Sequences, FiniteSets, TLC

\* The session: the two uploaders, the script's position, what the two
\* conversions returned and what the page shows.
VARIABLES excel_file, geojson_file, pc, geojson_bytes, excel_output,
          outcome1, outcome2, widgets
\* The Kanton transforms applied to one value: the value at the start, the
\* value now, the transforms applied so far.
VARIABLES kanton_src, kanton_val, kanton_ops
\* The publish helper: the remote store (path -> revision, 0 for none), the
\* next revision the store hands out, the helper's position, the arguments of
\* the publish in progress, the revision its read returned, its requests and
\* responses so far, its result, and the publishes started.
VARIABLES remote, next_rev, pub_pc, pub_args, pub_sha, pub_log, pub_result, pub_count

appVars == <<excel_file, geojson_file, pc, geojson_bytes, excel_output,
             outcome1, outcome2, widgets>>
kantonVars == <<kanton_src, kanton_val, kanton_ops>>
publishVars == <<remote, next_rev, pub_pc, pub_args, pub_sha, pub_log, pub_result, pub_count>>
vars == <<appVars, kantonVars, publishVars>>

\* ------------------------------------------------------------------ bounds

\* Longest text drawn for a varied spreadsheet cell or property.
MaxLen == 3
\* Most rows of an uploaded spreadsheet, most features of an uploaded document.
MaxRows == 2
\* Most items of a Kanton list, and the longest item.
MaxItems == 2
MaxItemLen == 2
\* Most publishes of a session, and most revisions the remote store hands out.
MaxPublishes == 2
MaxRevisions == 3

\* ------------------------------------------------------------------ values

NaN == [t |-> "nan"]
None == [t |-> "none"]
Str(s) == [t |-> "str", s |-> s]
List(l) == [t |-> "list", l |-> l]

RECURSIVE Pow10(_)
Pow10(k) == IF k = 0 THEN 1 ELSE 10 * Pow10(k - 1)

\* A number as Python holds it: m / 10^e with trailing zeros of the fraction removed.
RECURSIVE Num(_, _)
Num(m, e) ==
    IF e > 0 /\ m % 10 = 0 THEN Num(m \div 10, e - 1)
    ELSE [t |-> "num", m |-> m, e |-> e]

IsNaN(v) == v.t = "nan"
IsNone(v) == v.t = "none"
IsNum(v) == v.t = "num"
IsStr(v) == v.t = "str"
IsList(v) == v.t = "list"

\* ------------------------------------------------------------------ text

Digits == {"0", "1", "2", "3", "4", "5", "6", "7", "8", "9"}

DigitVal(c) ==
    CASE c = "0" -> 0 [] c = "1" -> 1 [] c = "2" -> 2 [] c = "3" -> 3
      [] c = "4" -> 4 [] c = "5" -> 5 [] c = "6" -> 6 [] c = "7" -> 7
      [] c = "8" -> 8 [] c = "9" -> 9

DigitChar(d) ==
    CASE d = 0 -> "0" [] d = 1 -> "1" [] d = 2 -> "2" [] d = 3 -> "3"
      [] d = 4 -> "4" [] d = 5 -> "5" [] d = 6 -> "6" [] d = 7 -> "7"
      [] d = 8 -> "8" [] d = 9 -> "9"

\* All texts over the alphabet A of length at most n.
TextsUpTo(A, n) == UNION {[1..k -> A] : k \in 0..n}

\* str.strip(): leading and trailing blanks removed.
RECURSIVE LStrip(_)
LStrip(s) == IF s # <<>> /\ Head(s) = " " THEN LStrip(Tail(s)) ELSE s

RECURSIVE RStrip(_)
RStrip(s) ==
    IF s # <<>> /\ s[Len(s)] = " " THEN RStrip(SubSeq(s, 1, Len(s) - 1)) ELSE s

Strip(s) == RStrip(LStrip(s))

\* str.split(","): the pieces between commas; a text without comma is one piece.
RECURSIVE SplitFrom(_, _, _)
SplitFrom(s, i, piece) ==
    IF i > Len(s) THEN <<piece>>
    ELSE IF s[i] = "," THEN <<piece>> \o SplitFrom(s, i + 1, <<>>)
    ELSE SplitFrom(s, i + 1, Append(piece, s[i]))

SplitComma(s) == SplitFrom(s, 1, <<>>)

\* ", ".join(l)
RECURSIVE JoinCommaSpace(_)
JoinCommaSpace(l) ==
    IF l = <<>> THEN <<>>
    ELSE IF Len(l) = 1 THEN l[1]
    ELSE l[1] \o <<",", " ">> \o JoinCommaSpace(Tail(l))

\* Series.replace({',': '.'}, regex=True) on one text: every comma becomes a dot.
ReplaceCommaWithDot(s) == [i \in 1..Len(s) |-> IF s[i] = "," THEN "." ELSE s[i]]

RECURSIVE DigitsValue(_)
DigitsValue(s) ==
    IF s = <<>> THEN 0 ELSE 10 * DigitsValue(SubSeq(s, 1, Len(s) - 1)) + DigitVal(s[Len(s)])

RECURSIVE IntToDigits(_)
IntToDigits(n) ==
    IF n < 10 THEN <<DigitChar(n)>> ELSE Append(IntToDigits(n \div 10), DigitChar(n % 10))

RECURSIVE Zeros(_)
Zeros(k) == IF k <= 0 THEN <<>> ELSE <<"0">> \o Zeros(k - 1)

\* The text of a decimal number: digits with at most one dot and at least one digit.
IsNumericText(s) ==
    /\ \A i \in 1..Len(s) : s[i] \in Digits \cup {"."}
    /\ Cardinality({i \in 1..Len(s) : s[i] = "."}) <= 1
    /\ \E i \in 1..Len(s) : s[i] \in Digits

\* The number a numeric text denotes.
ParseNumber(s) ==
    LET dots == {i \in 1..Len(s) : s[i] = "."}
        d == IF dots = {} THEN Len(s) + 1 ELSE CHOOSE i \in dots : TRUE
        whole == SubSeq(s, 1, d - 1)
        frac == SubSeq(s, d + 1, Len(s))
    IN Num(DigitsValue(whole) * Pow10(Len(frac)) + DigitsValue(frac), Len(frac))

\* str(x) of a float: "12.5", "8.0".
FormatNumber(v) ==
    IF v.e = 0 THEN IntToDigits(v.m) \o <<".", "0">>
    ELSE LET ds == IntToDigits(v.m)
             padded == Zeros(v.e + 1 - Len(ds)) \o ds
             k == Len(padded) - v.e
         IN SubSeq(padded, 1, k) \o <<".">> \o SubSeq(padded, k + 1, Len(padded))

\* ------------------------------------------------------------------ frames

(***************************************************************************)
(* A DataFrame is [cols |-> set of column names, rows |-> sequence of      *)
(* rows], a row being a function from cols to values.  A spreadsheet as    *)
(* pd.read_excel returns it has the same shape: an empty cell is NaN, a    *)
(* text cell a Str, a number cell a Num.                                   *)
(***************************************************************************)

Frame(cols, rows) == [cols |-> cols, rows |-> rows]

\* The cells of one column, as a set.
ColumnValues(df, column) == {df.rows[i][column] : i \in 1..Len(df.rows)}

\* Whether pandas holds the column as float64 or int64: numbers and NaN only.
IsNumericDtype(df, column) ==
    /\ Len(df.rows) > 0
    /\ \A v \in ColumnValues(df, column) : IsNum(v) \/ IsNaN(v)

\* The list of designated numeric columns.
numeric_columns == {"GesamthoeheM", "KEV-Liste", "Rotordurchmesser", "TotalTurbinen", "MW", "GWhA"}

\* pd.to_numeric(..., errors='ignore') on one cell: what is no number stays
\* as it is.
ToNumericIgnoreErrors(v) ==
    IF IsStr(v) /\ IsNumericText(v.s) THEN ParseNumber(v.s) ELSE v

\* pd.to_numeric(..., errors='coerce') on one cell: a number stays, a numeric
\* text is parsed, anything else becomes NaN.
ToNumeric(v) ==
    IF IsNum(v) THEN v
    ELSE IF IsStr(v) /\ IsNumericText(v.s) THEN ParseNumber(v.s)
    ELSE NaN

\* for column in numeric_columns: if column in the frame:
\*     frame[column] = pd.to_numeric(frame[column], errors='coerce')
CoerceNumericColumns(df) ==
    Frame(df.cols,
          [i \in 1..Len(df.rows) |->
              [c \in df.cols |->
                  IF c \in numeric_columns THEN ToNumeric(df.rows[i][c]) ELSE df.rows[i][c]]])

\* The lambda of the Kanton column without k.strip(): the pieces as split.
SplitKantonNoTrim(x) ==
    IF IsStr(x) /\ Strip(x.s) # <<>>
    THEN List(SplitComma(x.s))
    ELSE List(<<>>)

\* The lambda of the Kanton column: a non-blank text is split on commas and
\* each piece trimmed; anything else gives the empty list.
SplitKanton(x) ==
    IF IsStr(x) /\ Strip(x.s) # <<>>
    THEN LET pieces == SplitComma(x.s)
         IN List([k \in 1..Len(pieces) |-> Strip(pieces[k])])
    ELSE List(<<>>)

\* fillna(""): a missing cell becomes the empty text.
FillNa(v) == IF IsNaN(v) THEN Str(<<>>) ELSE v

\* excel_data["Kanton"].fillna("").apply(lambda ...) on one cell.
KantonOfCell(x) == SplitKanton(FillNa(x))

\* if "Kanton" in excel_data.columns: the Kanton column split into lists.
SplitKantonColumn(df) ==
    Frame(df.cols,
          [i \in 1..Len(df.rows) |->
              [c \in df.cols |->
                  IF c = "Kanton" THEN KantonOfCell(df.rows[i][c]) ELSE df.rows[i][c]]])

\* excel_data.fillna("")
FillNaFrame(df) ==
    Frame(df.cols, [i \in 1..Len(df.rows) |-> [c \in df.cols |-> FillNa(df.rows[i][c])]])

\* replace_commas_with_dots_excel: in every float64/int64 column, a cell that
\* is a str has its commas replaced (such a column holds no str).
replace_commas_with_dots_excel(data) ==
    Frame(data.cols,
          [i \in 1..Len(data.rows) |->
              [c \in data.cols |->
                  LET x == data.rows[i][c]
                  IN IF IsNumericDtype(data, c) /\ IsStr(x)
                     THEN Str(ReplaceCommaWithDot(x.s))
                     ELSE x]])

\* ------------------------------------------------------------------ geometry

(***************************************************************************)
(* WKT text is a sequence of tokens: the keyword, brackets, blanks, commas *)
(* and one-digit coordinates.  A geometry object is the GeoJSON mapping    *)
(* {type, coordinates}, the coordinates flattened: x, y, x, y, ...         *)
(***************************************************************************)

Geometry(type, coordinates) == [type |-> type, coordinates |-> coordinates]

IsPointWkt(s) ==
    /\ Len(s) = 6
    /\ s[1] = "POINT" /\ s[2] = "(" /\ s[3] \in Digits /\ s[4] = " "
    /\ s[5] \in Digits /\ s[6] = ")"

IsLineStringWkt(s) ==
    /\ Len(s) = 10
    /\ s[1] = "LINESTRING" /\ s[2] = "(" /\ s[3] \in Digits /\ s[4] = " "
    /\ s[5] \in Digits /\ s[6] = "," /\ s[7] \in Digits /\ s[8] = " "
    /\ s[9] \in Digits /\ s[10] = ")"

\* from_wkt reading the empty text as a missing geometry instead of raising.
WktParsesLenient(v) == IsStr(v) /\ (IsPointWkt(v.s) \/ IsLineStringWkt(v.s) \/ v.s = <<>>)

\* Whether GeoSeries.from_wkt accepts the cell: a text in WKT.  The empty
\* text (what fillna("") made of a missing cell) and a non-text cell are not.
WktParses(v) == IsStr(v) /\ (IsPointWkt(v.s) \/ IsLineStringWkt(v.s))

\* The geometry a WKT text denotes.
FromWkt(v) ==
    IF IsStr(v) /\ IsPointWkt(v.s)
    THEN Geometry("Point", <<DigitVal(v.s[3]), DigitVal(v.s[5])>>)
    ELSE IF IsStr(v) /\ IsLineStringWkt(v.s)
    THEN Geometry("LineString",
                  <<DigitVal(v.s[3]), DigitVal(v.s[5]), DigitVal(v.s[7]), DigitVal(v.s[9])>>)
    ELSE None

\* gpd.GeoSeries.from_wkt(excel_data["geometry"]) put back as the geometry column.
ParseGeometryColumn(df) ==
    Frame(df.cols,
          [i \in 1..Len(df.rows) |->
              [c \in df.cols |->
                  IF c = "geometry" THEN FromWkt(df.rows[i][c]) ELSE df.rows[i][c]]])

\* The WKT text of a point, as a spreadsheet cell.
PointWkt(x, y) == Str(<<"POINT", "(", DigitChar(x), " ", DigitChar(y), ")">>)

\* ------------------------------------------------------------------ Excel -> GeoJSON

\* GeoDataFrame.to_json(): one Feature per row, its properties the columns
\* other than geometry (NaN written as null), its geometry the parsed one.
ToJson(geo_data) ==
    [type |-> "FeatureCollection",
     features |->
        [i \in 1..Len(geo_data.rows) |->
            [type |-> "Feature",
             properties |->
                [c \in geo_data.cols \ {"geometry"} |->
                    IF IsNaN(geo_data.rows[i][c]) THEN None ELSE geo_data.rows[i][c]],
             geometry |-> geo_data.rows[i]["geometry"]]]]

\* convert_to_geojson: [outcome, bytes].  outcome "InvalidGeometry" is the
\* exception from_wkt raises, which leaves the function without a value.
convert_to_geojson(uploaded_file) ==
    LET excel_data == uploaded_file
        numeric == CoerceNumericColumns(excel_data)
        kanton == SplitKantonColumn(numeric)
        replaced == replace_commas_with_dots_excel(kanton)
        filled == FillNaFrame(replaced)
    IN IF "geometry" \in filled.cols
       THEN IF \A i \in 1..Len(filled.rows) : WktParses(filled.rows[i]["geometry"])
            THEN [outcome |-> "ok",
                  bytes |-> ToJson(ParseGeometryColumn(filled))]
            ELSE [outcome |-> "InvalidGeometry", bytes |-> None]
       ELSE [outcome |-> "MissingGeometryColumn", bytes |-> None]

\* ------------------------------------------------------------------ GeoJSON -> Excel

(***************************************************************************)
(* A parsed JSON document is a function from its top-level keys to values; *)
(* a Feature is [type, properties, geometry], properties a function from   *)
(* the Feature's own keys to values, geometry a geometry object or None.   *)
(***************************************************************************)

\* str(x), as astype(str) and join_kanton's last branch compute it.
RECURSIVE ReprItems(_)
ReprItems(l) ==
    IF l = <<>> THEN <<>>
    ELSE IF Len(l) = 1 THEN <<"'">> \o l[1] \o <<"'">>
    ELSE <<"'">> \o l[1] \o <<"'", ",", " ">> \o ReprItems(Tail(l))

PyStr(v) ==
    CASE IsStr(v) -> v.s
      [] IsNum(v) -> FormatNumber(v)
      [] IsNone(v) -> <<"N", "o", "n", "e">>
      [] IsNaN(v) -> <<"n", "a", "n">>
      [] IsList(v) -> <<"[">> \o ReprItems(v.l) \o <<"]">>

\* shape(feature["geometry"]) raises on a null geometry.
ShapeAccepts(g) == g # None

\* bool(geometry): a geometry is falsy when it is empty.
IsEmptyGeometry(g) == g.coordinates = <<>>

\* The columns of GeoDataFrame(records): every key of every record.
RecordColumns(features) ==
    UNION {DOMAIN features[i].properties : i \in 1..Len(features)} \cup {"geometry"}

\* The values one property key has over the records that carry it.
PresentValues(features, c) ==
    {features[i].properties[c] : i \in {j \in 1..Len(features) : c \in DOMAIN features[j].properties}}

\* Whether pandas infers a float column, turning None into NaN: the column
\* holds a number or a gap, and nothing but numbers, None and gaps.
InfersFloat(features, c) ==
    /\ \A v \in PresentValues(features, c) : IsNum(v) \/ IsNone(v)
    /\ \/ \E v \in PresentValues(features, c) : IsNum(v)
       \/ \E i \in 1..Len(features) : c \notin DOMAIN features[i].properties

\* A record's cell in the frame: a key the record lacks gives NaN.
RecordCell(features, i, c) ==
    IF c \notin DOMAIN features[i].properties THEN NaN
    ELSE IF IsNone(features[i].properties[c]) /\ InfersFloat(features, c) THEN NaN
    ELSE features[i].properties[c]

\* gpd.GeoDataFrame(records, geometry="geometry")
RecordsFrame(features) ==
    Frame(RecordColumns(features),
          [i \in 1..Len(features) |->
              [c \in RecordColumns(features) |->
                  IF c = "geometry" THEN features[i].geometry
                  ELSE RecordCell(features, i, c)]])

join_kanton(val) ==
    IF IsList(val) THEN Str(JoinCommaSpace(val.l))
    ELSE IF IsNone(val) THEN Str(<<>>)
    ELSE Str(PyStr(val))

\* replace_commas_with_dots: every designated column the frame has becomes
\* text, with every comma replaced by a dot.
replace_commas_with_dots(geo_data, cs) ==
    Frame(geo_data.cols,
          [i \in 1..Len(geo_data.rows) |->
              [c \in geo_data.cols |->
                  IF c \in cs THEN Str(ReplaceCommaWithDot(PyStr(geo_data.rows[i][c])))
                  ELSE geo_data.rows[i][c]]])

\* if "Kanton" in geo_data.columns:
\*     geo_data["Kanton"] = geo_data["Kanton"].apply(join_kanton)
JoinKantonColumn(df) ==
    Frame(df.cols,
          [i \in 1..Len(df.rows) |->
              [c \in df.cols |->
                  IF c = "Kanton" THEN join_kanton(df.rows[i][c]) ELSE df.rows[i][c]]])

\* x.y / x.x exist on a point only.
HasXY(g) == g.type = "Point"

\* lambda x: x.x if x else None, taken for the latitude.
LatWrong(g) == IF IsEmptyGeometry(g) THEN None ELSE Num(g.coordinates[1], 0)

\* lambda x: x.y if x else None
Lat(g) == IF IsEmptyGeometry(g) THEN None ELSE Num(g.coordinates[2], 0)

\* lambda x: x.x if x else None
Lon(g) == IF IsEmptyGeometry(g) THEN None ELSE Num(g.coordinates[1], 0)

\* The WKT text to_excel writes for a geometry.
RECURSIVE WktCoordinates(_)
WktCoordinates(cs) ==
    IF Len(cs) <= 2 THEN <<DigitChar(cs[1]), " ", DigitChar(cs[2])>>
    ELSE <<DigitChar(cs[1]), " ", DigitChar(cs[2]), ",">> \o WktCoordinates(SubSeq(cs, 3, Len(cs)))

ToWkt(g) ==
    LET keyword == CASE g.type = "Point" -> "POINT"
                     [] g.type = "LineString" -> "LINESTRING"
                     [] g.type = "Polygon" -> "POLYGON"
    IN IF IsEmptyGeometry(g) THEN Str(<<keyword, " ", "EMPTY">>)
       ELSE Str(<<keyword, "(">> \o WktCoordinates(g.coordinates) \o <<")">>)

\* geo_data.to_excel(output, index=False): None and NaN are written as empty
\* cells, a geometry as its WKT text, a list as its str().
ToExcel(geo_data) ==
    Frame(geo_data.cols,
          [i \in 1..Len(geo_data.rows) |->
              [c \in geo_data.cols |->
                  LET x == geo_data.rows[i][c]
                  IN IF c = "geometry" THEN ToWkt(x)
                     ELSE IF IsNone(x) \/ IsNaN(x) THEN NaN
                     ELSE IF IsList(x) THEN Str(PyStr(x))
                     ELSE x]])

\* geo_data['lat'] = ...; geo_data['lon'] = ...: the two columns added, or
\* overwritten if the frame has them.
WithLatLon(df) ==
    Frame(df.cols \cup {"lat", "lon"},
          [i \in 1..Len(df.rows) |->
              [c \in df.cols \cup {"lat", "lon"} |->
                  CASE c = "lat" -> Lat(df.rows[i]["geometry"])
                    [] c = "lon" -> Lon(df.rows[i]["geometry"])
                    [] OTHER -> df.rows[i][c]]])

\* convert_geojson_to_excel from GeoDataFrame(records) on: [outcome, output].
\* Every outcome but "ok" is an exception that leaves the function without a
\* value:
\*   ShapeError      shape() raises on a null geometry
\*   UnknownColumn   GeoDataFrame([], geometry="geometry") raises
\*   AttributeError  x.y raises on a geometry that is no point
ConvertFeatures(features) ==
    IF \E i \in 1..Len(features) : ~ShapeAccepts(features[i].geometry)
    THEN [outcome |-> "ShapeError", output |-> None]
    ELSE IF features = <<>>
    THEN [outcome |-> "UnknownColumn", output |-> None]
    ELSE LET records == RecordsFrame(features)
             joined == JoinKantonColumn(records)
             replaced == replace_commas_with_dots(joined, numeric_columns)
         IN IF \E i \in 1..Len(replaced.rows) :
                  LET g == replaced.rows[i]["geometry"]
                  IN ~IsEmptyGeometry(g) /\ ~HasXY(g)
            THEN [outcome |-> "AttributeError", output |-> None]
            ELSE [outcome |-> "ok",
                  output |-> ToExcel(CoerceNumericColumns(WithLatLon(replaced)))]

\* raw.get("features", []) in place of raw["features"]
convert_geojson_to_excel_get(raw) ==
    ConvertFeatures(IF "features" \in DOMAIN raw THEN raw["features"] ELSE <<>>)

\* convert_geojson_to_excel: raw["features"] raises KeyError on a document
\* with no features list (outcome MalformedFeatureCollection), before the loop
\* over the features starts.
convert_geojson_to_excel(raw) ==
    IF "features" \notin DOMAIN raw
    THEN [outcome |-> "MalformedFeatureCollection", output |-> None]
    ELSE ConvertFeatures(raw["features"])

\* ------------------------------------------------------------------ uploads

(***************************************************************************)
(* The files a user uploads.  A spreadsheet is a document of sample rows   *)
(* in normal form, or one with a single cell replaced by any cell content  *)
(* (any text up to MaxLen characters, a number, an empty cell), or one     *)
(* with a column dropped, added or renamed.                                *)
(***************************************************************************)

NumChars == {"1", "5", ".", ",", "x"}
KantonChars == {"a", "b", " ", ","}

NumCells ==
    {Str(s) : s \in TextsUpTo(NumChars, MaxLen)} \cup {NaN, Num(15, 1), Num(8, 0)}
KantonCells ==
    {Str(s) : s \in TextsUpTo(KantonChars, MaxLen)} \cup {NaN, Num(8, 0)}
GeometryCells ==
    {PointWkt(x, y) : x \in 1..2, y \in 1..2}
    \cup {Str(<<"LINESTRING", "(", "1", " ", "1", ",", "2", " ", "2", ")">>),
          Str(<<>>), NaN, Num(8, 0), Str(<<"POINT", "(">>), Str(<<"x">>),
          Str(<<"POINT", "(", "1", ",", "2", ")">>)}
NameCells == {Str(<<"n">>), Str(<<"1", ",", "5">>), NaN, Num(8, 0)}

ExcelColumns == {"MW", "Kanton", "Name", "geometry"}

CellsOf(c) ==
    CASE c = "MW" -> NumCells
      [] c = "Kanton" -> KantonCells
      [] c = "geometry" -> GeometryCells
      [] c = "Name" -> NameCells

NormalRows ==
    {[c \in ExcelColumns |->
        CASE c = "MW" -> mw [] c = "Kanton" -> Str(k) [] c = "Name" -> Str(<<"n">>)
          [] c = "geometry" -> g] :
        mw \in {Num(15, 1), Num(8, 0)},
        k \in {<<"a">>, <<"a", ",", " ", "b">>},
        g \in {PointWkt(1, 2), PointWkt(2, 1)}}

RowA ==
    [c \in ExcelColumns |->
        CASE c = "MW" -> Num(15, 1) [] c = "Kanton" -> Str(<<"a", ",", " ", "b">>)
          [] c = "Name" -> Str(<<"n">>) [] c = "geometry" -> PointWkt(1, 2)]
RowB ==
    [c \in ExcelColumns |->
        CASE c = "MW" -> Num(8, 0) [] c = "Kanton" -> Str(<<"a">>)
          [] c = "Name" -> Str(<<"n">>) [] c = "geometry" -> PointWkt(2, 1)]

SeqsOf(S, lo, hi) == UNION {[1..k -> S] : k \in lo..hi}

NormalDocs == {Frame(ExcelColumns, rows) : rows \in SeqsOf(NormalRows, 0, MaxRows)}
\* The sample documents: RowA, RowB, RowA, ... up to MaxRows rows.
BaseDocs ==
    {Frame(ExcelColumns, [i \in 1..n |-> IF i % 2 = 1 THEN RowA ELSE RowB]) : n \in 1..MaxRows}

ReplaceCell(df, i, c, v) ==
    Frame(df.cols, [df.rows EXCEPT ![i] = [df.rows[i] EXCEPT ![c] = v]])

DropColumn(df, column) ==
    Frame(df.cols \ {column},
          [i \in 1..Len(df.rows) |-> [c \in df.cols \ {column} |-> df.rows[i][c]]])

AddColumn(df, column, v) ==
    Frame(df.cols \cup {column},
          [i \in 1..Len(df.rows) |->
              [c \in df.cols \cup {column} |-> IF c = column THEN v ELSE df.rows[i][c]]])

RenameColumn(df, from, to) ==
    Frame((df.cols \ {from}) \cup {to},
          [i \in 1..Len(df.rows) |->
              [c \in (df.cols \ {from}) \cup {to} |->
                  IF c = to THEN df.rows[i][from] ELSE df.rows[i][c]]])

\* A sample document with one cell replaced by any content of its column.
VariedDocs ==
    UNION {UNION {{ReplaceCell(d, i, c, v) : v \in CellsOf(c)} :
                    i \in 1..Len(d.rows), c \in ExcelColumns} :
             d \in BaseDocs}

\* A document whose designated numeric column has any of the six names.
RenamedDocs ==
    {RenameColumn(ReplaceCell(Frame(ExcelColumns, <<RowA>>), 1, "MW", v), "MW", c) :
        v \in NumCells, c \in numeric_columns}

\* A document that already has a lat or lon column.
LatLonDocs ==
    {AddColumn(d, c, Num(8, 0)) : d \in BaseDocs, c \in {"lat", "lon"}}

\* Any of the above without one of its columns.
DroppedDocs ==
    {DropColumn(d, "geometry") : d \in NormalDocs \cup VariedDocs}
    \cup {DropColumn(d, c) : d \in BaseDocs, c \in {"MW", "Kanton", "Name"}}

ExcelDocs == NormalDocs \cup VariedDocs \cup RenamedDocs \cup LatLonDocs \cup DroppedDocs

(***************************************************************************)
(* An uploaded JSON document: a FeatureCollection of sample features, or   *)
(* one with a single property or geometry replaced or a property removed,  *)
(* or a document with no features list.                                    *)
(***************************************************************************)

PropertyKeys == {"MW", "Kanton", "Name"}

Feature(properties, geometry) ==
    [type |-> "Feature", properties |-> properties, geometry |-> geometry]

FeatureCollection(features) == [type |-> "FeatureCollection", features |-> features]

FeatA ==
    Feature([c \in PropertyKeys |->
                CASE c = "MW" -> Num(15, 1) [] c = "Kanton" -> List(<<<<"a">>, <<"b">>>>)
                  [] c = "Name" -> Str(<<"n">>)],
            Geometry("Point", <<1, 2>>))
FeatB ==
    Feature([c \in PropertyKeys |->
                CASE c = "MW" -> Num(8, 0) [] c = "Kanton" -> List(<<<<"a">>>>)
                  [] c = "Name" -> Str(<<"n">>)],
            Geometry("Point", <<2, 1>>))

JsonNumValues ==
    {Str(s) : s \in TextsUpTo(NumChars, MaxLen)} \cup {None, Num(15, 1), Num(8, 0)}
JsonKantonValues ==
    {List(<<>>), List(<<<<"a">>>>), List(<<<<"a">>, <<"b", " ", "c">>>>), List(<<<<>>>>),
     None, Str(<<"a">>), Num(8, 0)}
JsonNameValues == {Str(<<"n">>), Str(<<"1", ",", "5">>), None, Num(8, 0)}
JsonGeometries ==
    {Geometry("Point", <<1, 1>>), Geometry("Point", <<>>), None,
     Geometry("LineString", <<1, 1, 2, 2>>),
     Geometry("Polygon", <<1, 1, 3, 1, 3, 3, 1, 3, 1, 1>>)}

JsonValuesOf(c) ==
    CASE c = "MW" -> JsonNumValues
      [] c = "Kanton" -> JsonKantonValues
      [] c = "Name" -> JsonNameValues

\* The sample feature lists: FeatA, FeatB, FeatA, ... up to MaxRows features.
BaseFeatures == {[i \in 1..n |-> IF i % 2 = 1 THEN FeatA ELSE FeatB] : n \in 1..MaxRows}

WithProperty(f, c, v) ==
    Feature([k \in DOMAIN f.properties \cup {c} |-> IF k = c THEN v ELSE f.properties[k]],
            f.geometry)

WithoutProperty(f, c) ==
    Feature([k \in DOMAIN f.properties \ {c} |-> f.properties[k]], f.geometry)

VariedFeatures ==
    UNION {UNION {{[fs EXCEPT ![i] = WithProperty(fs[i], c, v)] : v \in JsonValuesOf(c)}
                    \cup {[fs EXCEPT ![i] = WithoutProperty(fs[i], c)]} :
                    i \in 1..Len(fs), c \in PropertyKeys} :
             fs \in BaseFeatures}
    \cup UNION {{[fs EXCEPT ![i] = Feature(fs[i].properties, g)] :
                    i \in 1..Len(fs), g \in JsonGeometries} :
                  fs \in BaseFeatures}

\* Documents with no features list at top level.
MalformedDocs ==
    {[type |-> "FeatureCollection"],
     [type |-> "Feature", properties |-> FeatA.properties, geometry |-> FeatA.geometry],
     [type |-> "FeatureCollection", Features |-> <<FeatA>>]}

GeoDocs ==
    {FeatureCollection(fs) : fs \in {<<>>} \cup BaseFeatures \cup VariedFeatures}
    \cup MalformedDocs

\* The files a user uploads beside a file already in the other uploader.
SampleExcelDocs ==
    {Frame(ExcelColumns, <<RowA>>),
     DropColumn(Frame(ExcelColumns, <<RowA>>), "geometry"),
     ReplaceCell(Frame(ExcelColumns, <<RowA, RowB>>), 2, "geometry", Str(<<"x">>))}
SampleGeoDocs == {FeatureCollection(<<FeatA>>), [type |-> "FeatureCollection"]}

\* ------------------------------------------------------------------ the app

(***************************************************************************)
(* One Streamlit session.  Every upload reruns the script from the top:    *)
(* the tab1 block, then the tab2 block.  An exception that escapes a       *)
(* conversion ends the run there: Streamlit shows it, and the rest of the  *)
(* script does not execute.  widgets is what the page shows.               *)
(***************************************************************************)

\* The widgets shown without the test of the returned value.
TruthyAlways(v) == TRUE

\* `if geojson_bytes:` / `if excel_output:`
Truthy(v) == v # None

Rerun ==
    /\ pc' = "tab1"
    /\ geojson_bytes' = None
    /\ excel_output' = None
    /\ outcome1' = "none"
    /\ outcome2' = "none"
    /\ widgets' = {}

AppInit ==
    /\ excel_file = None
    /\ geojson_file = None
    /\ pc = "idle"
    /\ geojson_bytes = None
    /\ excel_output = None
    /\ outcome1 = "none"
    /\ outcome2 = "none"
    /\ widgets = {}

\* No Kanton value under transformation.
KantonIdle ==
    /\ kanton_src = None
    /\ kanton_val = None
    /\ kanton_ops = <<>>

PublishPaths == {"a.geojson", "b.geojson"}

\* Nothing published, the remote store empty.
PublishIdle ==
    /\ remote = [p \in PublishPaths |-> 0]
    /\ next_rev = 1
    /\ pub_pc = "idle"
    /\ pub_args = None
    /\ pub_sha = 0
    /\ pub_log = <<>>
    /\ pub_result = None
    /\ pub_count = 0

Init == AppInit /\ KantonIdle /\ PublishIdle

\* What the session takes as the next upload: any document into an empty
\* page, a sample document beside a sample document in the other uploader.
UploadableExcel ==
    IF geojson_file = None THEN ExcelDocs
    ELSE IF geojson_file \in SampleGeoDocs THEN SampleExcelDocs
    ELSE {}

UploadableGeo ==
    IF excel_file = None THEN GeoDocs
    ELSE IF excel_file \in SampleExcelDocs THEN SampleGeoDocs
    ELSE {}

\* The user puts a spreadsheet into tab1's uploader.
UploadExcel ==
    /\ UNCHANGED <<kantonVars, publishVars>>
    /\ pc = "idle"
    /\ excel_file = None
    /\ \E d \in UploadableExcel : excel_file' = d
    /\ UNCHANGED geojson_file
    /\ Rerun

\* The user puts a JSON document into tab2's uploader.
UploadGeoJSON ==
    /\ UNCHANGED <<kantonVars, publishVars>>
    /\ pc = "idle"
    /\ geojson_file = None
    /\ \E g \in UploadableGeo : geojson_file' = g
    /\ UNCHANGED excel_file
    /\ Rerun

\* The user downloads converted.geojson and puts it into tab2's uploader.
FeedBack ==
    /\ UNCHANGED <<kantonVars, publishVars>>
    /\ pc = "idle"
    /\ "download1" \in widgets
    /\ geojson_file # geojson_bytes
    /\ geojson_file' = geojson_bytes
    /\ UNCHANGED excel_file
    /\ Rerun

\* with tab1: nothing uploaded.
Tab1Empty ==
    /\ UNCHANGED <<kantonVars, publishVars>>
    /\ pc = "tab1"
    /\ excel_file = None
    /\ pc' = "tab2"
    /\ UNCHANGED <<excel_file, geojson_file, geojson_bytes, excel_output,
                   outcome1, outcome2, widgets>>

\* with tab1: convert_to_geojson(excel_file), then the success message and
\* the download button if it returned bytes.
Tab1Convert ==
    /\ UNCHANGED <<kantonVars, publishVars>>
    /\ pc = "tab1"
    /\ excel_file # None
    /\ LET r == convert_to_geojson(excel_file)
       IN /\ outcome1' = r.outcome
          /\ geojson_bytes' = r.bytes
          /\ IF r.outcome = "InvalidGeometry"
             THEN pc' = "idle" /\ widgets' = widgets \cup {"exception"}
             ELSE /\ pc' = "tab2"
                  /\ widgets' = widgets
                        \cup (IF r.outcome = "MissingGeometryColumn" THEN {"warning"} ELSE {})
                        \cup (IF Truthy(r.bytes) THEN {"success1", "download1"} ELSE {})
    /\ UNCHANGED <<excel_file, geojson_file, excel_output, outcome2>>

\* with tab2: nothing uploaded.
Tab2Empty ==
    /\ UNCHANGED <<kantonVars, publishVars>>
    /\ pc = "tab2"
    /\ geojson_file = None
    /\ pc' = "idle"
    /\ UNCHANGED <<excel_file, geojson_file, geojson_bytes, excel_output,
                   outcome1, outcome2, widgets>>

\* with tab2: convert_geojson_to_excel(geojson_file), then the success
\* message and the download button.
Tab2Convert ==
    /\ UNCHANGED <<kantonVars, publishVars>>
    /\ pc = "tab2"
    /\ geojson_file # None
    /\ LET r == convert_geojson_to_excel(geojson_file)
       IN /\ outcome2' = r.outcome
          /\ excel_output' = r.output
          /\ pc' = "idle"
          /\ widgets' = widgets
                \cup (IF r.outcome # "ok" THEN {"exception"} ELSE {})
                \cup (IF r.outcome = "ok" /\ Truthy(r.output) THEN {"success2", "download2"} ELSE {})
    /\ UNCHANGED <<excel_file, geojson_file, geojson_bytes, outcome1>>

Next ==
    \/ UploadExcel
    \/ UploadGeoJSON
    \/ FeedBack
    \/ Tab1Empty
    \/ Tab1Convert
    \/ Tab2Empty
    \/ Tab2Convert

Spec == Init /\ [][Next]_vars

\* ------------------------------------------------------------------ properties

\* The script has run the tab1 block / the tab2 block on the present uploads.
Tab1Ran == excel_file # None /\ pc # "tab1"
Tab2Ran == geojson_file # None /\ pc = "idle" /\ outcome2 # "none"

\* A text that is no number, with a comma or a dot as decimal separator.
Unparseable(x) == IsStr(x) /\ ~IsNumericText(ReplaceCommaWithDot(x.s))

\* C1: in convert_to_geojson, a text cell of a designated numeric column
\* yields the same property value as the same text with its commas written
\* as dots ("1,5" as "1.5").
C1_CommaYieldsSameAsDot ==
    (Tab1Ran /\ outcome1 = "ok") =>
        \A i \in 1..Len(excel_file.rows) : \A c \in numeric_columns \cap excel_file.cols :
            LET x == excel_file.rows[i][c]
            IN IsStr(x) =>
                geojson_bytes.features[i].properties[c] =
                    convert_to_geojson(
                        ReplaceCell(excel_file, i, c, Str(ReplaceCommaWithDot(x.s)))
                    ).bytes.features[i].properties[c]

\* C2: a spreadsheet with no geometry column ends in MissingGeometryColumn,
\* with no bytes, no success message and no GeoJSON download.
C2_MissingGeometryColumn ==
    (excel_file # None /\ "geometry" \notin excel_file.cols) =>
        /\ geojson_bytes = None
        /\ widgets \cap {"success1", "download1"} = {}
        /\ Tab1Ran => outcome1 = "MissingGeometryColumn"

C2_Witness ==
    /\ Tab1Ran
    /\ "geometry" \notin excel_file.cols
    /\ Len(excel_file.rows) = MaxRows
    /\ \E i \in 1..MaxRows : Unparseable(excel_file.rows[i]["MW"])
    /\ outcome1 = "MissingGeometryColumn"
    /\ "warning" \in widgets

\* C5: a document with no features list ends in MalformedFeatureCollection,
\* with no rows, no spreadsheet and no Excel download.
C5_MalformedFeatureCollection ==
    (geojson_file # None /\ "features" \notin DOMAIN geojson_file) =>
        /\ excel_output = None
        /\ widgets \cap {"success2", "download2"} = {}
        /\ (pc = "idle" /\ outcome1 # "InvalidGeometry") =>
              outcome2 = "MalformedFeatureCollection"

C5_Witness ==
    /\ geojson_file # None
    /\ "features" \notin DOMAIN geojson_file
    /\ "Features" \in DOMAIN geojson_file
    /\ pc = "idle"
    /\ outcome2 = "MalformedFeatureCollection"
    /\ "exception" \in widgets

\* A geometry cell that is no WKT text: missing, empty, not a text, or a text
\* outside the WKT grammar.
BadGeometryCell(v) == ~IsStr(v) \/ ~(IsPointWkt(v.s) \/ IsLineStringWkt(v.s))

\* C9: a spreadsheet with a geometry column in which some row's text is no
\* WKT ends in InvalidGeometry, with no bytes at all, no success message and
\* no GeoJSON download.
C9_InvalidGeometryAborts ==
    (/\ excel_file # None
     /\ "geometry" \in excel_file.cols
     /\ \E i \in 1..Len(excel_file.rows) : BadGeometryCell(excel_file.rows[i]["geometry"])) =>
        /\ geojson_bytes = None
        /\ widgets \cap {"success1", "download1"} = {}
        /\ Tab1Ran => outcome1 = "InvalidGeometry"

C9_Witness ==
    /\ Tab1Ran
    /\ "geometry" \in excel_file.cols
    /\ Len(excel_file.rows) = MaxRows
    /\ ~BadGeometryCell(excel_file.rows[1]["geometry"])
    /\ excel_file.rows[MaxRows]["geometry"] = NaN
    /\ outcome1 = "InvalidGeometry"
    /\ "exception" \in widgets

\* A spreadsheet in normal form: a WKT point in every geometry cell, a number
\* in every cell of a designated numeric column, a ", "-separated text in
\* every Kanton cell, and no empty cell.
IsNormalForm(doc) ==
    /\ "geometry" \in doc.cols
    /\ \A i \in 1..Len(doc.rows) :
          /\ IsStr(doc.rows[i]["geometry"]) /\ IsPointWkt(doc.rows[i]["geometry"].s)
          /\ \A c \in doc.cols \ {"geometry"} :
                LET x == doc.rows[i][c]
                IN /\ ~IsNaN(x)
                   /\ c \in numeric_columns => IsNum(x)
                   /\ c = "Kanton" =>
                         /\ IsStr(x)
                         /\ Strip(x.s) # <<>>
                         /\ LET pieces == SplitComma(x.s)
                            IN x.s = JoinCommaSpace([k \in 1..Len(pieces) |-> Strip(pieces[k])])

\* The converted file of tab1 is the file in tab2's uploader, and tab2 has run.
RoundTripDone ==
    /\ Tab1Ran /\ outcome1 = "ok"
    /\ geojson_file = geojson_bytes
    /\ Tab2Ran

\* Row i of the spreadsheet tab2 made has the point of row i of the
\* spreadsheet tab1 read as its lon and lat.
LonLatOfPoint(i) ==
    /\ excel_output.rows[i]["lon"] = Num(DigitVal(excel_file.rows[i]["geometry"].s[3]), 0)
    /\ excel_output.rows[i]["lat"] = Num(DigitVal(excel_file.rows[i]["geometry"].s[5]), 0)

Centre(g, k) ==
    LET vs == {g.coordinates[j] : j \in {n \in 1..Len(g.coordinates) : n % 2 = k % 2}}
        lo == CHOOSE v \in vs : \A w \in vs : v <= w
        hi == CHOOSE v \in vs : \A w \in vs : v >= w
    IN Num((lo + hi) * 5, 1)

\* C6: in convert_geojson_to_excel, every Feature yields a row whose lon and
\* lat are the x and y of its geometry (point coordinate or centroid), and a
\* Feature with a null geometry yields a row with lat and lon empty.
C6_LatLonOfEveryFeature ==
    (/\ Tab2Ran
     /\ "features" \in DOMAIN geojson_file
     /\ geojson_file["features"] # <<>>) =>
        /\ outcome2 = "ok"
        /\ Len(excel_output.rows) = Len(geojson_file["features"])
        /\ \A i \in 1..Len(geojson_file["features"]) :
              LET g == geojson_file["features"][i].geometry
              IN IF g = None
                 THEN excel_output.rows[i]["lat"] = NaN /\ excel_output.rows[i]["lon"] = NaN
                 ELSE ~IsEmptyGeometry(g) =>
                        /\ excel_output.rows[i]["lon"] = Centre(g, 1)
                        /\ excel_output.rows[i]["lat"] = Centre(g, 2)

\* C7: a cell of a designated numeric column that is no number never aborts
\* a conversion, in either direction: the conversion ends as it would with a
\* number in that cell, with one record per input record, the cell the
\* missing marker ("" in the GeoJSON payload, empty in the spreadsheet) and
\* every other cell as it would be with a number in that cell.
C7_ParseFailureDegrades ==
    /\ Tab1Ran =>
          \A i \in 1..Len(excel_file.rows) : \A c \in numeric_columns \cap excel_file.cols :
              Unparseable(excel_file.rows[i][c]) =>
                  LET valid == convert_to_geojson(ReplaceCell(excel_file, i, c, Num(8, 0)))
                  IN /\ outcome1 = valid.outcome
                     /\ outcome1 = "ok" =>
                           /\ Len(geojson_bytes.features) = Len(excel_file.rows)
                           /\ geojson_bytes.features[i].properties[c] = Str(<<>>)
                           /\ \A j \in 1..Len(excel_file.rows) :
                                 /\ geojson_bytes.features[j].geometry =
                                        valid.bytes.features[j].geometry
                                 /\ \A k \in excel_file.cols \ {"geometry"} :
                                       (j # i \/ k # c) =>
                                           geojson_bytes.features[j].properties[k] =
                                               valid.bytes.features[j].properties[k]
    /\ (Tab2Ran /\ "features" \in DOMAIN geojson_file) =>
          LET fs == geojson_file["features"]
          IN \A i \in 1..Len(fs) : \A c \in numeric_columns \cap DOMAIN fs[i].properties :
              Unparseable(fs[i].properties[c]) =>
                  LET valid == convert_geojson_to_excel(
                                   FeatureCollection(
                                       [fs EXCEPT ![i] = WithProperty(fs[i], c, Num(8, 0))]))
                  IN /\ outcome2 = valid.outcome
                     /\ outcome2 = "ok" =>
                           /\ Len(excel_output.rows) = Len(fs)
                           /\ excel_output.cols = valid.output.cols
                           /\ excel_output.rows[i][c] = NaN
                           /\ \A j \in 1..Len(fs) : \A k \in excel_output.cols :
                                 (j # i \/ k # c) =>
                                     excel_output.rows[j][k] = valid.output.rows[j][k]

C7_Witness ==
    /\ RoundTripDone
    /\ outcome2 = "ok"
    /\ Len(excel_file.rows) = MaxRows
    /\ "MW" \in excel_file.cols
    /\ excel_file.rows[MaxRows]["MW"] = Str(<<"1", "x">>)
    /\ geojson_bytes.features[MaxRows].properties["MW"] = Str(<<>>)
    /\ Unparseable(geojson_file["features"][MaxRows].properties["MW"])
    /\ excel_output.rows[MaxRows]["MW"] = NaN
    /\ excel_output.rows[1]["MW"] = Num(15, 1)

\* C8: in convert_geojson_to_excel, the Kanton cell of a Feature's row is the
\* list's items joined with ", " when the property is a list, and the empty
\* text when the property is null or the Feature lacks the key.
C8_KantonCell ==
    (Tab2Ran /\ outcome2 = "ok" /\ "Kanton" \in excel_output.cols) =>
        \A i \in 1..Len(geojson_file["features"]) :
            LET props == geojson_file["features"][i].properties
            IN /\ ("Kanton" \in DOMAIN props /\ IsList(props["Kanton"])) =>
                     excel_output.rows[i]["Kanton"] = Str(JoinCommaSpace(props["Kanton"].l))
               /\ ("Kanton" \notin DOMAIN props \/ IsNone(props["Kanton"])) =>
                     excel_output.rows[i]["Kanton"] = Str(<<>>)

\* ------------------------------------------------------------------ the Kanton transforms

(***************************************************************************)
(* The two rules of the Kanton column applied to one value, one after the  *)
(* other: the rule of convert_to_geojson (split) and join_kanton (join).   *)
(***************************************************************************)

ItemChars == {"a", " ", ","}

KantonInputs ==
    {List(l) : l \in SeqsOf(TextsUpTo(ItemChars, MaxItemLen), 0, MaxItems)}
    \cup {Str(s) : s \in TextsUpTo(KantonChars, MaxLen)}
    \cup {NaN, None}

KantonInit ==
    /\ AppInit
    /\ PublishIdle
    /\ kanton_src \in KantonInputs
    /\ kanton_val = kanton_src
    /\ kanton_ops = <<>>

LastKantonOp == IF kanton_ops = <<>> THEN "none" ELSE kanton_ops[Len(kanton_ops)]

\* The rule of convert_to_geojson on a spreadsheet cell.
KantonSplit ==
    /\ Len(kanton_ops) < 2
    /\ LastKantonOp # "split"
    /\ ~IsList(kanton_val) /\ ~IsNone(kanton_val)
    /\ kanton_val' = KantonOfCell(kanton_val)
    /\ kanton_ops' = Append(kanton_ops, "split")
    /\ UNCHANGED <<kanton_src, appVars, publishVars>>

\* join_kanton on a property value.
KantonJoin ==
    /\ Len(kanton_ops) < 2
    /\ LastKantonOp # "join"
    /\ kanton_val' = join_kanton(kanton_val)
    /\ kanton_ops' = Append(kanton_ops, "join")
    /\ UNCHANGED <<kanton_src, appVars, publishVars>>

KantonNext == KantonSplit \/ KantonJoin

SpecKanton == KantonInit /\ [][KantonNext]_vars

\* A list of texts without comma.
CommaFreeList(v) ==
    /\ IsList(v)
    /\ \A k \in 1..Len(v.l) : \A n \in 1..Len(v.l[k]) : v.l[k][n] # ","

\* C3 as claimed: split(join(L)) = L for every list L of texts without
\* comma, and join(split("")) = "".
C3_InverseAsClaimed ==
    /\ (kanton_ops = <<"join", "split">> /\ CommaFreeList(kanton_src)) =>
          kanton_val = kanton_src
    /\ (kanton_ops = <<"split", "join">> /\ kanton_src = Str(<<>>)) =>
          kanton_val = Str(<<>>)

\* C3 as amended: split(join(L)) = L for every list L of texts without comma
\* and without leading or trailing blank, other than the list of just the
\* empty text; and join(split("")) = "".
C3_Inverse ==
    /\ (/\ kanton_ops = <<"join", "split">>
        /\ CommaFreeList(kanton_src)
        /\ \A k \in 1..Len(kanton_src.l) : Strip(kanton_src.l[k]) = kanton_src.l[k]
        /\ kanton_src.l # <<<<>>>>) =>
          kanton_val = kanton_src
    /\ (kanton_ops = <<"split", "join">> /\ kanton_src = Str(<<>>)) =>
          kanton_val = Str(<<>>)

C3_Witness ==
    /\ kanton_ops = <<"join", "split">>
    /\ IsList(kanton_src)
    /\ Len(kanton_src.l) = MaxItems
    /\ kanton_src.l[1] = <<"a">>
    /\ kanton_src.l[MaxItems] = <<>>
    /\ kanton_val = kanton_src

\* ------------------------------------------------------------------ publish

(***************************************************************************)
(* The publish helper: read the path's revision (GET), then write (PUT)    *)
(* with the revision the read returned, if any.  The remote store holds a  *)
(* revision per path, 0 for a path that does not exist; it accepts a write *)
(* whose revision is the stored one and hands out a new revision.  Another *)
(* writer may write to the store at any time.                              *)
(***************************************************************************)

PublishPayloads == {<<"p">>, <<"q">>}

\* The base64 encoding of the payload, as a tagged value.
Base64(payload) == [base64 |-> payload]

\* The body of the write with the field sha always present.
PutBodyAlwaysSha(payload, sha) ==
    [message |-> "update", content |-> Base64(payload), branch |-> "main", sha |-> sha]

\* The body of the write: message, content and branch, and the revision
\* token only if the read found one.
PutBody(payload, sha) ==
    IF sha = 0
    THEN [message |-> "update", content |-> Base64(payload), branch |-> "main"]
    ELSE [message |-> "update", content |-> Base64(payload), branch |-> "main", sha |-> sha]

\* publish(payload, remotePath) starts: the read request goes out.
PublishStart ==
    /\ pub_pc = "idle"
    /\ pub_count < MaxPublishes
    /\ \E payload \in PublishPayloads, path \in PublishPaths :
          pub_args' = [payload |-> payload, path |-> path]
    /\ pub_pc' = "reading"
    /\ pub_sha' = 0
    /\ pub_result' = None
    /\ pub_log' = <<[op |-> "GET"]>>
    /\ pub_count' = pub_count + 1
    /\ UNCHANGED <<remote, next_rev, appVars, kantonVars>>

\* The read returns: the stored revision, or none for a path that does not exist.
GetReturns ==
    /\ pub_pc = "reading"
    /\ pub_sha' = remote[pub_args.path]
    /\ pub_log' = Append(pub_log, [op |-> "GET_RETURN", sha |-> remote[pub_args.path]])
    /\ pub_pc' = "read"
    /\ UNCHANGED <<remote, next_rev, pub_args, pub_result, pub_count, appVars, kantonVars>>

\* The write request goes out.
PutSend ==
    /\ pub_pc = "read"
    /\ pub_log' = Append(pub_log, [op |-> "PUT", body |-> PutBody(pub_args.payload, pub_sha)])
    /\ pub_pc' = "writing"
    /\ UNCHANGED <<remote, next_rev, pub_args, pub_sha, pub_result, pub_count,
                   appVars, kantonVars>>

\* The store answers the write: 200/201 and a new revision if the request's
\* revision is the stored one, a failure otherwise.  The token is discarded.
PutReturns ==
    /\ pub_pc = "writing"
    /\ LET body == pub_log[Len(pub_log)].body
           sent == IF "sha" \in DOMAIN body THEN body.sha ELSE 0
       IN IF sent = remote[pub_args.path] /\ next_rev <= MaxRevisions
          THEN /\ remote' = [remote EXCEPT ![pub_args.path] = next_rev]
               /\ next_rev' = next_rev + 1
               /\ pub_result' = [status |-> IF sent = 0 THEN 201 ELSE 200]
               /\ pub_log' = Append(pub_log, [op |-> "PUT_RETURN", ok |-> TRUE])
          ELSE /\ UNCHANGED <<remote, next_rev>>
               /\ pub_result' = [status |-> 409]
               /\ pub_log' = Append(pub_log, [op |-> "PUT_RETURN", ok |-> FALSE])
    /\ pub_sha' = 0
    /\ pub_pc' = "idle"
    /\ UNCHANGED <<pub_args, pub_count, appVars, kantonVars>>

\* Another writer changes a path of the store.
OtherWriter ==
    /\ next_rev <= MaxRevisions
    /\ \E path \in PublishPaths : remote' = [remote EXCEPT ![path] = next_rev]
    /\ next_rev' = next_rev + 1
    /\ UNCHANGED <<pub_pc, pub_args, pub_sha, pub_log, pub_result, pub_count,
                   appVars, kantonVars>>

PublishNext == PublishStart \/ GetReturns \/ PutSend \/ PutReturns \/ OtherWriter

SpecPublish == Init /\ [][PublishNext]_vars

PublishOrder == <<"GET", "GET_RETURN", "PUT", "PUT_RETURN">>

\* C10: in every publish the read is issued and completes before the single
\* write is issued, and the write carries the field sha if and only if the
\* read returned a revision, and then exactly that revision.
C10_ReadThenWrite ==
    /\ Len(pub_log) <= Len(PublishOrder)
    /\ \A i \in 1..Len(pub_log) : pub_log[i].op = PublishOrder[i]
    /\ Len(pub_log) >= 3 =>
          LET returned == pub_log[2].sha
              body == pub_log[3].body
          IN /\ "sha" \in DOMAIN body <=> returned # 0
             /\ returned # 0 => body.sha = returned

C10_Witness ==
    /\ pub_count = MaxPublishes
    /\ Len(pub_log) = 4
    /\ pub_log[2].sha # 0
    /\ pub_log[3].body.sha = pub_log[2].sha
    /\ pub_result = [status |-> 200]

====
